---- MODULE Spec2Model ----
(***************************************************************************)
(* Model of kuma/dashboards: the spam dashboard statistics engine.         *)
(*   constants.py  the dimension schema and the derived-stat catalog       *)
(*   utils.py      spam_day_stats, spam_derived_stat,                      *)
(*                 spam_dashboard_historical_stats                         *)
(* Python values are modelled as follows: str as TLA+ strings, dict as a   *)
(* function over its keys, list/tuple as a sequence, None as the string    *)
(* None, datetime.date as its proleptic ordinal (date.toordinal()), float  *)
(* quotients as exact fractions in lowest terms.                           *)
(***************************************************************************)
EXTENDS Integers, Sequences, FiniteSets, TLC

VARIABLES
    \* spam_derived_stat (utils.py:164-191)
    st_pc, st_events, st_categories, st_result,
    \* spam_day_stats (utils.py:40-161)
    ds_pc, special_groups, counts, rev, doc_lang, document_data, blocked,
    needs_review, ds_npub, ds_nblocked, ds_tally, ds_result,
    \* spam_dashboard_historical_stats (utils.py:194-368)
    h_pc, h_args, snapshots, periods, end_date, summary, spans, oldest, day,
    events, trends, fetched, accumulated, data,
    \* the catalog generation at import (constants.py:70-110)
    c_pc, c_base, c_catalog, c_changetype, c_group, c_stat, c_first, c_eval,
    \* SpamDayStatsJob (jobs.py:5-12) and its cache
    j_source, j_cache, j_now, j_version, j_req, j_gets, j_invocations,
    \* the days' selections of spam_day_stats (utils.py:62-70, 108-112)
    r_attempts, r_snapshots

stvars == <<st_pc, st_events, st_categories, st_result>>
dsvars == <<ds_pc, special_groups, counts, rev, doc_lang, document_data, blocked,
            needs_review, ds_npub, ds_nblocked, ds_tally, ds_result>>
hvars == <<h_pc, h_args, snapshots, periods, end_date, summary, spans, oldest, day,
           events, trends, fetched, accumulated, data>>
cvars == <<c_pc, c_base, c_catalog, c_changetype, c_group, c_stat, c_first,
           c_eval>>
\* The variables of the components added after the first three.
jvars == <<j_source, j_cache, j_now, j_version, j_req, j_gets, j_invocations>>
rvars == <<r_attempts, r_snapshots>>
othervars == <<cvars, jvars, rvars>>
vars == <<stvars, dsvars, hvars, othervars>>

\* Python's None, and the truth value Python gives a str-or-None in `if x:`.
None == "None"
Truthy(v) == v # None /\ v # ""

Range(s) == {s[i] : i \in DOMAIN s}

RECURSIVE SumRange(_, _, _)
\* s[lo] + ... + s[hi], by halves.
SumRange(s, lo, hi) ==
    IF lo > hi THEN 0
    ELSE IF lo = hi THEN s[lo]
    ELSE LET half == (lo + hi) \div 2
         IN  SumRange(s, lo, half) + SumRange(s, half + 1, hi)
SumSeq(s) == SumRange(s, 1, Len(s))

RECURSIVE SumOver(_, _)
\* The sum of f[x] over the finite set S.
SumOver(f, S) ==
    IF S = {} THEN 0
    ELSE LET x == CHOOSE y \in S : TRUE IN f[x] + SumOver(f, S \ {x})

RECURSIVE FlattenRange(_, _, _)
\* ss[lo] \o ... \o ss[hi], by halves.
FlattenRange(ss, lo, hi) ==
    IF lo > hi THEN <<>>
    ELSE IF lo = hi THEN ss[lo]
    ELSE LET half == (lo + hi) \div 2
         IN  FlattenRange(ss, lo, half) \o FlattenRange(ss, half + 1, hi)
Flatten(ss) == FlattenRange(ss, 1, Len(ss))

(***************************************************************************)
(* constants.py: the dimension schema.                                     *)
(***************************************************************************)
SPAM_STAT_CATEGORY_OPTIONS ==
    << <<"group", <<"staff", "known", "other">> >>,
       <<"published", <<"published", "blocked">> >>,
       <<"content", <<"spam", "ham", "unknown">> >>,
       <<"fresh", <<"new", "edit">> >>,
       <<"lang", <<"en", "other">> >> >>

SPAM_STAT_CATEGORIES ==
    {SPAM_STAT_CATEGORY_OPTIONS[i][1] : i \in DOMAIN SPAM_STAT_CATEGORY_OPTIONS}

SPAM_RATE_ID_SUFFIX == "_rate"

\* '_'.join(parts)
RECURSIVE Join(_)
Join(parts) ==
    IF Len(parts) = 0 THEN ""
    ELSE IF Len(parts) = 1 THEN parts[1]
    ELSE parts[1] \o "_" \o Join(Tail(parts))

\* itertools.product(*parts): the tuples in lexicographic order, the last
\* position varying fastest.
RECURSIVE Product(_)
Product(parts) ==
    IF parts = <<>> THEN << <<>> >>
    ELSE LET rest == Product(Tail(parts))
         IN  Flatten([i \in DOMAIN Head(parts) |->
                        [j \in DOMAIN rest |-> <<Head(parts)[i]>> \o rest[j]]])

\* The function f as a table of its values (f itself, evaluated once).
Stored(f) == f @@ <<>>

\* dict.get(key, default)
Get(d, key, default) == IF key \in DOMAIN d THEN d[key] ELSE default

(***************************************************************************)
(* utils.py: spam_derived_stat(events, **categories).                      *)
(* The result is [status, value]: status "returned" with the count, or     *)
(* the exception raised (value -1).                                        *)
(***************************************************************************)
Returned(v) == [status |-> "returned", value |-> v]
Raised(exc) == [status |-> exc, value |-> -1]

\* Lines 178-184, one iteration: the part for one category; ok is FALSE
\* when the assert of line 181 fails.
DerivedPartIgnoreSelect(categories, category, options) ==
    [ok |-> TRUE, part |-> options]

DerivedPart(categories, category, options) ==
    LET select == Get(categories, category, None)
    IN  IF Truthy(select)
        THEN [ok |-> select \in Range(options), part |-> <<select>>]
        ELSE [ok |-> TRUE, part |-> options]

DerivedParts(categories) ==
    [i \in DOMAIN SPAM_STAT_CATEGORY_OPTIONS |->
        DerivedPart(categories, SPAM_STAT_CATEGORY_OPTIONS[i][1],
                    SPAM_STAT_CATEGORY_OPTIONS[i][2])]

\* Lines 174-188: [ok, keys]: the keys of the product, in its order; ok is
\* FALSE when an assert fails.
DerivedKeys(categories) ==
    LET parts == DerivedParts(categories)
        tuples == Product([i \in DOMAIN parts |-> parts[i].part])
    IN  IF \/ \E category \in DOMAIN categories : category \notin SPAM_STAT_CATEGORIES
           \/ \E i \in DOMAIN parts : ~parts[i].ok
        THEN [ok |-> FALSE, keys |-> <<>>]
        ELSE [ok |-> TRUE, keys |-> [i \in DOMAIN tuples |-> Join(tuples[i])]]

\* Lines 186-191: the sum of events.get(key, 0) over the keys.
DerivedCount(ev, keys) ==
    IF keys.ok
    THEN Returned(SumSeq([i \in DOMAIN keys.keys |-> Get(ev, keys.keys[i], 0)]))
    ELSE Raised("AssertionError")

spam_derived_stat(ev, categories) == DerivedCount(ev, DerivedKeys(categories))

(***************************************************************************)
(* Inputs of spam_derived_stat.                                            *)
(***************************************************************************)
\* The most selector entries that are not a declared (dimension, value) pair.
MaxInvalid == 1

\* Every full event key, in the order of utils.py:229-231.
RawKeyTuples == Product([i \in DOMAIN SPAM_STAT_CATEGORY_OPTIONS |->
                            SPAM_STAT_CATEGORY_OPTIONS[i][2]])
raw_columns == Stored([i \in DOMAIN RawKeyTuples |-> Join(RawKeyTuples[i])])

OptionsOf(category) ==
    LET i == CHOOSE j \in DOMAIN SPAM_STAT_CATEGORY_OPTIONS :
                 SPAM_STAT_CATEGORY_OPTIONS[j][1] = category
    IN  Range(SPAM_STAT_CATEGORY_OPTIONS[i][2])

\* The docstring's example events (utils.py:50-58, the two keys of the spec's
\* example), every leaf key with a count of its own, and some sparse mappings.
ExampleEvents ==
    [k \in {"other_published_ham_edit_en", "staff_published_ham_edit_en"} |->
        IF k = "other_published_ham_edit_en" THEN 13 ELSE 26]
FullCubeEvents ==
    LET idx(k) == CHOOSE i \in DOMAIN raw_columns : raw_columns[i] = k
    IN  [k \in Range(raw_columns) |-> idx(k)]
SampleKeys == {"staff_published_spam_new_en", "known_blocked_ham_edit_other",
               "other_blocked_unknown_new_other"}
EventMaps ==
    {ExampleEvents, FullCubeEvents} \cup
    {[k \in S |-> FullCubeEvents[k]] : S \in SUBSET SampleKeys}

SelectorNames == SPAM_STAT_CATEGORIES \cup {"color"}
BadValues == {"", None, "bogus"}
ValuesOf(name) ==
    IF name \in SPAM_STAT_CATEGORIES THEN OptionsOf(name) \cup BadValues
    ELSE {"red"}
ValidEntry(name, value) ==
    name \in SPAM_STAT_CATEGORIES /\ value \in OptionsOf(name)
Absent == "<absent>"
SelectorChoices ==
    [group : ValuesOf("group") \cup {Absent},
     published : ValuesOf("published") \cup {Absent},
     content : ValuesOf("content") \cup {Absent},
     fresh : ValuesOf("fresh") \cup {Absent},
     lang : ValuesOf("lang") \cup {Absent},
     color : ValuesOf("color") \cup {Absent}]
\* The keyword arguments a choice stands for.
Kwargs(choice) ==
    [n \in {m \in SelectorNames : choice[m] # Absent} |-> choice[n]]
InvalidEntries(c) == {n \in DOMAIN c : ~ValidEntry(n, c[n])}
Selectors ==
    {c \in {Kwargs(choice) : choice \in SelectorChoices} :
        Cardinality(InvalidEntries(c)) <= MaxInvalid}

StIdle ==
    /\ st_pc = "idle"
    /\ st_events = <<>>
    /\ st_categories = <<>>
    /\ st_result = Returned(0)

InitStat ==
    /\ st_pc = "call"
    /\ st_events \in EventMaps
    /\ st_categories \in Selectors
    /\ st_result = Returned(0)

\* One call of spam_derived_stat(events, **categories).
DerivedStatCall ==
    /\ st_pc = "call"
    /\ st_result' = spam_derived_stat(st_events, st_categories)
    /\ st_pc' = "done"
    /\ UNCHANGED <<st_events, st_categories, dsvars, hvars, othervars>>


(***************************************************************************)
(* utils.py: spam_special_groups and spam_day_stats(day).                  *)
(* The database: users 1..3, of which user 1 is staff and users 1 and 2    *)
(* are in the Known Authors group, which exists; document 1 is            *)
(* an English page, document 2 a translation (it has a parent_id).         *)
(***************************************************************************)
\* The most published revisions, and the most blocked attempts, of the day.
MaxRevs == 1
MaxBlocked == 1

Users == {1, 2, 3}
StaffIds == {1}
KnownGroupIds == {1, 2}
Docs == {1, 2}
DocParentId == [d \in Docs |-> IF d = 2 THEN 1 ELSE 0]

\* DocumentSpamAttempt.review: the three values the code names, and OTHER
\* for any value that is none of them (the else of line 126 without the if
\* of line 127).
NEEDS_REVIEW == "NEEDS_REVIEW"
HAM == "HAM"
SPAM == "SPAM"
Reviews == {NEEDS_REVIEW, HAM, SPAM, "OTHER"}

\* DocumentSpamAttempt.data: None, or the JSON text Akismet was sent. A
\* str is a sequence of characters here, so that startswith is computed.
EnUS == <<"e", "n", "-", "U", "S">>
Fr == <<"f", "r">>
BlockedData == {None, "{\"blog_lang\": \"en-US\"}", "{\"blog_lang\": \"fr\"}",
                "{blog_lang"}

\* json.loads on the texts above: [ok, obj], ok FALSE for a ValueError.
JsonLoads(text) ==
    CASE text = "{}" -> [ok |-> TRUE, obj |-> <<>>]
      [] text = "{\"blog_lang\": \"en-US\"}" ->
            [ok |-> TRUE, obj |-> [k \in {"blog_lang"} |-> EnUS]]
      [] text = "{\"blog_lang\": \"fr\"}" ->
            [ok |-> TRUE, obj |-> [k \in {"blog_lang"} |-> Fr]]
      [] text = "{\"blog_lang\": \"\"}" ->
            [ok |-> TRUE, obj |-> [k \in {"blog_lang"} |-> <<>>]]
      [] OTHER -> [ok |-> FALSE, obj |-> <<>>]

\* str.startswith
StartsWith(str, prefix) ==
    Len(str) >= Len(prefix) /\ SubSeq(str, 1, Len(prefix)) = prefix

\* Lines 23-37. The except branch (no Known Authors group) leaves known_ids
\* empty.
KnownGroupExists == TRUE
spam_special_groups ==
    LET staff_ids == StaffIds
        known_ids == IF KnownGroupExists THEN KnownGroupIds ELSE {}
    IN  << <<"staff", staff_ids>>, <<"known", known_ids \ staff_ids>> >>

\* Lines 78-82 and 115-119: the first special group holding the id.
AuthorGroup(groups, creator_id) ==
    IF \E i \in DOMAIN groups : creator_id \in groups[i][2]
    THEN groups[CHOOSE i \in DOMAIN groups :
                    /\ creator_id \in groups[i][2]
                    /\ \A j \in 1..(i - 1) : creator_id \notin groups[j][2]][1]
    ELSE "other"

\* counts[key] += 1 on a Counter.
Increment(counter, key) == (key :> (Get(counter, key, 0) + 1)) @@ counter

Unbound == [id |-> 0]
IsBound(local) == local.id # 0

\* Lines 122-129: the content token of a blocked attempt, "continue" when
\* the attempt is not counted.
BlockedContentAllCounted(review) ==
    IF review = SPAM THEN "spam" ELSE "ham"

BlockedContent(review) ==
    IF review = HAM THEN "ham"
    ELSE IF review = SPAM THEN "spam"
    ELSE "continue"

\* Lines 132-147: [ok, fresh, lang] of a counted blocked attempt; ok is
\* FALSE when json.loads raises.
BlockedFreshLang(b) ==
    IF b.document_id # 0
    THEN [ok |-> TRUE, fresh |-> "edit",
          lang |-> IF DocParentId[b.document_id] # 0 THEN "other" ELSE "en"]
    ELSE LET loaded == JsonLoads(IF b.data = None \/ b.data = "" THEN "{}" ELSE b.data)
             lang == IF loaded.ok /\ "blog_lang" \in DOMAIN loaded.obj
                     THEN loaded.obj["blog_lang"] ELSE <<>>
         IN  [ok |-> loaded.ok, fresh |-> "new",
              lang |-> IF lang = <<>> THEN "other"
                       ELSE IF StartsWith(lang, <<"e", "n">>) THEN "en"
                       ELSE "other"]

\* The blocked attempts the day's query may yield; data is read only when
\* no document is linked.
BlockedAttempts ==
    {b \in [user_id : Users, review : Reviews, document_id : {0} \cup Docs,
            data : BlockedData] : b.document_id # 0 => b.data = None}

DsIdle ==
    /\ ds_pc = "idle"
    /\ special_groups = <<>>
    /\ counts = <<>>
    /\ rev = Unbound
    /\ doc_lang = None
    /\ document_data = <<>>
    /\ blocked = Unbound
    /\ needs_review = FALSE
    /\ ds_npub = 0
    /\ ds_nblocked = 0
    /\ ds_tally = <<>>
    /\ ds_result = <<>>

\* Lines 61-64: the locals on entry; rev, doc_lang and blocked are unbound.
InitDay ==
    /\ ds_pc = "published"
    /\ special_groups = spam_special_groups
    /\ counts = <<>>
    /\ rev = Unbound
    /\ doc_lang = None
    /\ document_data = <<>>
    /\ blocked = Unbound
    /\ needs_review = FALSE
    /\ ds_npub = 0
    /\ ds_nblocked = 0
    /\ ds_tally = [r \in Reviews |-> 0]
    /\ ds_result = <<>>

\* Lines 71-106, one iteration. The revision has the next id; first is the
\* id of the earliest revision of its document (0: one of an earlier day),
\* read when the document is met for the first time (lines 92-95).
PublishedStep ==
    /\ ds_pc = "published"
    /\ ds_npub < MaxRevs
    /\ \E creator \in Users, spam \in BOOLEAN, d \in Docs, first \in 0..MaxRevs :
        LET id == ds_npub + 1
            firsts == {document_data[x].first_rev : x \in DOMAIN document_data}
            known == d \in DOMAIN document_data
            new_data == IF known THEN document_data
                        ELSE [x \in DOMAIN document_data \cup {d} |->
                                IF x = d
                                THEN [first_rev |-> first,
                                      doc_lang |-> IF DocParentId[d] # 0
                                                   THEN "other" ELSE "en"]
                                ELSE document_data[x]]
            group == AuthorGroup(special_groups, creator)
            content == IF spam THEN "spam" ELSE "ham"
            fresh == IF new_data[d].first_rev = id THEN "new" ELSE "edit"
            key == Join(<<group, "published", content, fresh, new_data[d].doc_lang>>)
        IN  /\ \A x \in DOMAIN document_data :
                  document_data[x].first_rev = id => x = d
            /\ IF known THEN first = 0
               ELSE first \in ({0} \cup (id..MaxRevs)) \ (firsts \ {0})
            /\ rev' = [id |-> id, creator_id |-> creator, document_id |-> d,
                       spam |-> spam]
            /\ document_data' = new_data
            /\ doc_lang' = new_data[d].doc_lang
            /\ counts' = Increment(counts, key)
            /\ ds_npub' = id
    /\ UNCHANGED <<ds_pc, special_groups, blocked, needs_review, ds_nblocked,
                   ds_tally, ds_result>>
    /\ UNCHANGED <<stvars, hvars, othervars>>

\* Lines 108-112: the revisions are exhausted.
EndPublished ==
    /\ ds_pc = "published"
    /\ \A x \in DOMAIN document_data : document_data[x].first_rev <= ds_npub
    /\ ds_pc' = "blocked"
    /\ needs_review' = FALSE
    /\ UNCHANGED <<special_groups, counts, rev, doc_lang, document_data, blocked,
                   ds_npub, ds_nblocked, ds_tally, ds_result>>
    /\ UNCHANGED <<stvars, hvars, othervars>>

\* Lines 113-151, one iteration on the blocked attempt b.
BlockedStep ==
    /\ ds_pc = "blocked"
    /\ ds_nblocked < MaxBlocked
    /\ \E b \in BlockedAttempts :
        LET content == BlockedContent(b.review)
            fl == BlockedFreshLang(b)
        IN  /\ blocked' = [id |-> ds_nblocked + 1, user_id |-> b.user_id,
                           review |-> b.review, document_id |-> b.document_id,
                           data |-> b.data]
            /\ ds_nblocked' = ds_nblocked + 1
            /\ ds_tally' = [ds_tally EXCEPT ![b.review] = @ + 1]
            /\ IF ~IsBound(rev)
               THEN \* line 117: rev is read and was never assigned
                    /\ ds_pc' = "raised"
                    /\ ds_result' = "NameError"
                    /\ UNCHANGED <<counts, needs_review>>
               ELSE IF content = "continue"
               THEN /\ needs_review' = (needs_review \/ b.review = NEEDS_REVIEW)
                    /\ UNCHANGED <<ds_pc, counts, ds_result>>
               ELSE IF ~fl.ok
               THEN \* line 140: json.loads raises
                    /\ ds_pc' = "raised"
                    /\ ds_result' = "ValueError"
                    /\ UNCHANGED <<counts, needs_review>>
               ELSE /\ counts' = Increment(counts,
                            Join(<<AuthorGroup(special_groups, rev.creator_id),
                                   "blocked", content, fl.fresh, doc_lang>>))
                    /\ UNCHANGED <<ds_pc, needs_review, ds_result>>
    /\ UNCHANGED <<special_groups, rev, doc_lang, document_data, ds_npub>>
    /\ UNCHANGED <<stvars, hvars, othervars>>

\* Lines 153-161: the snapshot (its generation time and the day's ISO text
\* are left out).
DayReturn ==
    /\ ds_pc = "blocked"
    /\ ds_pc' = "returned"
    /\ ds_result' = [version |-> 1, needs_review |-> needs_review, events |-> counts]
    /\ UNCHANGED <<special_groups, counts, rev, doc_lang, document_data, blocked,
                   needs_review, ds_npub, ds_nblocked, ds_tally>>
    /\ UNCHANGED <<stvars, hvars, othervars>>

(***************************************************************************)
(* constants.py: the periods and the derived-stat catalog.  A stat is      *)
(* [id, derived, rate_denominiator]; rate_denominiator is None when the    *)
(* dict has no such key (what stat.get('rate_denominiator') returns).      *)
(***************************************************************************)
SPAM_PERIODS ==
    << <<1, "period_daily">>, <<7, "period_weekly">>,
       <<28, "period_monthly">>, <<91, "period_quarterly">> >>

SPAM_STAT_CHANGE_TYPES ==
    << [id |-> "changetype_new", fresh |-> "new", lang |-> "en"],
       [id |-> "changetype_edit", fresh |-> "edit", lang |-> "en"],
       [id |-> "changetype_newtrans", fresh |-> "new", lang |-> "other"],
       [id |-> "changetype_edittrans", fresh |-> "edit", lang |-> "other"] >>

\* d[key] = value on a dict.
SetItem(d, key, value) == (key :> value) @@ d

Stat(id, derived, denom) ==
    [id |-> id, derived |-> derived, rate_denominiator |-> denom]

\* The base list with its first entry, total, moved to the end.
BaseTotalLast ==
    << Stat("published_ham", [content |-> "ham", published |-> "published"], None),
       Stat("blocked_spam", [content |-> "spam", published |-> "blocked"], "total"),
       Stat("published_spam", [content |-> "spam", published |-> "published"], "total"),
       Stat("blocked_ham", [content |-> "ham", published |-> "blocked"], "total"),
       Stat("spam", [content |-> "spam"], "total"),
       Stat("spam_blocked", [content |-> "spam", published |-> "blocked"], "spam"),
       Stat("total", <<>>, None) >>

BASE_SPAM_DASHBOARD_DERIVED_STATS ==
    << Stat("total", <<>>, None),
       Stat("published_ham", [content |-> "ham", published |-> "published"], None),
       Stat("blocked_spam", [content |-> "spam", published |-> "blocked"], "total"),
       Stat("published_spam", [content |-> "spam", published |-> "published"], "total"),
       Stat("blocked_ham", [content |-> "ham", published |-> "blocked"], "total"),
       Stat("spam", [content |-> "spam"], "total"),
       Stat("spam_blocked", [content |-> "spam", published |-> "blocked"], "spam") >>

\* Lines 75-85: one base stat segmented by one change type.
ChangeTypeStatGroupDenominator(stat, changetype) ==
    Stat(stat.id \o "_" \o changetype.id,
         SetItem(SetItem(stat.derived, "fresh", changetype.fresh),
                 "lang", changetype.lang),
         IF Truthy(stat.rate_denominiator)
         THEN stat.rate_denominiator \o "_group_" \o changetype.id ELSE None)

ChangeTypeStat(stat, changetype) ==
    Stat(stat.id \o "_" \o changetype.id,
         SetItem(SetItem(stat.derived, "fresh", changetype.fresh),
                 "lang", changetype.lang),
         IF Truthy(stat.rate_denominiator)
         THEN stat.rate_denominiator \o "_" \o changetype.id ELSE None)

\* Lines 90-99: one base stat segmented by one user group.
GroupStat(stat, group) ==
    Stat(stat.id \o "_group_" \o group,
         SetItem(stat.derived, "group", group),
         IF Truthy(stat.rate_denominiator)
         THEN stat.rate_denominiator \o "_group_" \o group ELSE None)

\* Lines 104-110: one change type segmented by one user group.
GroupChangeTypeStat(group, changetype) ==
    Stat(group \o "_" \o changetype.id,
         SetItem(SetItem([k \in {"group"} |-> group], "fresh", changetype.fresh),
                 "lang", changetype.lang),
         None)

GroupOptions == SPAM_STAT_CATEGORY_OPTIONS[1][2]

\* Lines 70-110.
SPAM_DASHBOARD_DERIVED_STATS ==
    BASE_SPAM_DASHBOARD_DERIVED_STATS
    \o Flatten([c \in DOMAIN SPAM_STAT_CHANGE_TYPES |->
            [b \in DOMAIN BASE_SPAM_DASHBOARD_DERIVED_STATS |->
                ChangeTypeStat(BASE_SPAM_DASHBOARD_DERIVED_STATS[b],
                               SPAM_STAT_CHANGE_TYPES[c])]])
    \o Flatten([g \in DOMAIN GroupOptions |->
            [b \in DOMAIN BASE_SPAM_DASHBOARD_DERIVED_STATS |->
                GroupStat(BASE_SPAM_DASHBOARD_DERIVED_STATS[b], GroupOptions[g])]])
    \o Flatten([g \in DOMAIN GroupOptions |->
            [c \in DOMAIN SPAM_STAT_CHANGE_TYPES |->
                GroupChangeTypeStat(GroupOptions[g], SPAM_STAT_CHANGE_TYPES[c])]])

(***************************************************************************)
(* datetime.date as its ordinal: isoformat, after the standard library's   *)
(* _ord2ymd.                                                               *)
(***************************************************************************)
DaysInMonth == <<31, 28, 31, 30, 31, 30, 31, 31, 30, 31, 30, 31>>
DaysBeforeMonth == <<0, 31, 59, 90, 120, 151, 181, 212, 243, 273, 304, 334>>

Ord2Ymd(ordinal) ==
    LET n0 == ordinal - 1
        n400 == n0 \div 146097
        r400 == n0 % 146097
        n100 == r400 \div 36524
        r100 == r400 % 36524
        n4 == r100 \div 1461
        r4 == r100 % 1461
        n1 == r4 \div 365
        n == r4 % 365
        year == n400 * 400 + 1 + n100 * 100 + n4 * 4 + n1
        leap == n1 = 3 /\ (n4 # 24 \/ n100 = 3)
        extra(m) == IF m > 2 /\ leap THEN 1 ELSE 0
        month0 == (n + 50) \div 32
        before0 == DaysBeforeMonth[month0] + extra(month0)
        month == IF before0 > n THEN month0 - 1 ELSE month0
        before == IF before0 > n
                  THEN before0 - (DaysInMonth[month]
                                    + (IF month = 2 /\ leap THEN 1 ELSE 0))
                  ELSE before0
    IN  IF n1 = 4 \/ n100 = 4 THEN <<year - 1, 12, 31>>
        ELSE <<year, month, n - before + 1>>

\* "%02d"
TwoDigits(n) == IF n < 10 THEN "0" \o ToString(n) ELSE ToString(n)
\* "%04d"
FourDigits(n) ==
    IF n < 10 THEN "000" \o ToString(n)
    ELSE IF n < 100 THEN "00" \o ToString(n)
    ELSE IF n < 1000 THEN "0" \o ToString(n) ELSE ToString(n)

IsoFormat(ordinal) ==
    LET ymd == Ord2Ymd(ordinal)
    IN  FourDigits(ymd[1]) \o "-" \o TwoDigits(ymd[2]) \o "-" \o TwoDigits(ymd[3])

(***************************************************************************)
(* float(a) / float(b) as the fraction a/b in lowest terms, <<num, den>>.  *)
(***************************************************************************)
RECURSIVE Gcd(_, _)
Gcd(a, b) == IF b = 0 THEN a ELSE Gcd(b, a % b)

Frac(a, b) == LET g == Gcd(a, b) IN <<a \div g, b \div g>>
Zero == <<0, 1>>

\* Lines 262-266 and 340-344: the rate with its zero guard.
RateInverted(derived, denom) ==
    IF derived # 0 THEN Frac(denom, derived) ELSE Zero

Rate(derived, denom) ==
    IF denom # 0 THEN Frac(derived, denom) ELSE Zero

\* "%0.02f%%" % (100.0 * raw): two decimals, ties to even.
FormatPercent(raw) ==
    LET q == (10000 * raw[1]) \div raw[2]
        r == (10000 * raw[1]) % raw[2]
        cents == IF 2 * r > raw[2] THEN q + 1
                 ELSE IF 2 * r < raw[2] THEN q
                 ELSE IF q % 2 = 0 THEN q ELSE q + 1
    IN  ToString(cents \div 100) \o "." \o TwoDigits(cents % 100) \o "%"

(***************************************************************************)
(* utils.py: spam_dashboard_historical_stats.                              *)
(***************************************************************************)
\* The most periods in the list, and the longest period, the caller gives.
MaxPeriods == 2
MaxLen == 2

\* datetime.date.today(), and the end date a caller gives (2016-03-02).
Today == 736143
GivenEndDate == 736025

\* An optional argument: given (some) with its value, or left out / None.
Some(v) == [some |-> TRUE, v |-> v]
NoPeriods == [some |-> FALSE, v |-> <<>>]
NoDate == [some |-> FALSE, v |-> 0]
NoSummary == [some |-> FALSE, v |-> 0]

RECURSIVE SeqsUpTo(_, _)
\* The sequences over S of length 1..n.
SeqsUpTo(S, n) ==
    IF n = 0 THEN {}
    ELSE LET shorter == SeqsUpTo(S, n - 1)
         IN  {<<x>> : x \in S} \cup shorter
             \cup {Append(q, x) : q \in shorter, x \in S}

\* Period lists: the i-th period is (length, "period_<i>").
PeriodLists ==
    {[i \in DOMAIN ls |-> <<ls[i], "period_" \o ToString(i)>>] :
        ls \in SeqsUpTo(1..MaxLen, MaxPeriods)}

\* The calls: a given period list and end date with every summary; the
\* periods left out or empty, with the summary left out or not a length of
\* SPAM_PERIODS; the end date left out, with one period.
SummaryArgs == {NoSummary} \cup {Some(n) : n \in 0..(MaxLen + 1)}
HistArgs ==
    [periods : {Some(p) : p \in PeriodLists},
     end_date : {Some(GivenEndDate)},
     summary : SummaryArgs]
    \cup [periods : {NoPeriods, Some(<<>>)},
          end_date : {Some(GivenEndDate)},
          summary : {NoSummary, Some(MaxLen + 1)}]
    \cup [periods : {Some(p) : p \in {q \in PeriodLists : Len(q) = 1}},
          end_date : {NoDate},
          summary : {NoSummary}]

\* What SpamDayStatsJob().get(day) returns: the cached snapshots are one of
\* Seeds stores, each a cycle of three days' events.
SampleSnapshots ==
    << <<>>,
       [k \in {"other_published_ham_edit_en", "staff_published_ham_new_en",
               "other_blocked_spam_new_other"} |->
           IF k = "other_published_ham_edit_en" THEN 2 ELSE 1],
       [k \in {"known_published_spam_edit_other", "other_blocked_spam_edit_en",
               "other_blocked_ham_new_en"} |->
           IF k = "other_blocked_spam_edit_en" THEN 2 ELSE 1] >>
Seeds == {0, 1}
SnapshotEvents(seed, d) == SampleSnapshots[((d + seed) % 3) + 1]

Lengths(ps) == {ps[i][1] : i \in DOMAIN ps}

\* Lines 207-210: `x or default`.
DefaultedPeriods(arg) ==
    IF arg.some /\ arg.v # <<>> THEN arg.v ELSE SPAM_PERIODS
DefaultedEndDate(arg) == IF arg.some THEN arg.v ELSE Today - 1
DefaultedSummary(arg, ps) ==
    IF arg.some /\ arg.v # 0 THEN arg.v ELSE ps[Len(ps)][1]

\* Lines 219-224.
Span(length, period_id, e) ==
    [length |-> length, period_id |-> period_id, end |-> e,
     mid |-> e - length, start |-> e - length - length]
Spans(ps, e) == [i \in DOMAIN ps |-> Span(ps[i][1], ps[i][2], e)]
\* With the first period's start alone.
OldestOfFirst(sp, acc) == IF sp = <<>> THEN acc ELSE Head(sp).start

RECURSIVE Oldest(_, _)
\* oldest = min(start, oldest) over the spans, from acc.
Oldest(sp, acc) ==
    IF sp = <<>> THEN acc
    ELSE Oldest(Tail(sp), IF Head(sp).start < acc THEN Head(sp).start ELSE acc)

\* Lines 233-238.
derived_columns(stats) ==
    Flatten([i \in DOMAIN stats |->
        IF Truthy(stats[i].rate_denominiator)
        THEN <<stats[i].id, stats[i].id \o SPAM_RATE_ID_SUFFIX>>
        ELSE <<stats[i].id>>])
columns == Stored(derived_columns(SPAM_DASHBOARD_DERIVED_STATS) \o raw_columns)

\* column_id.endswith(SPAM_RATE_ID_SUFFIX), decided among the columns: no
\* column ends with the suffix but a stat's id with the suffix appended.
RateColumns ==
    {SPAM_DASHBOARD_DERIVED_STATS[i].id \o SPAM_RATE_ID_SUFFIX :
        i \in DOMAIN SPAM_DASHBOARD_DERIVED_STATS}
EndsWithRateSuffix(column_id) == column_id \in RateColumns
NonRateColumns == {c \in Range(columns) : ~EndsWithRateSuffix(c)}

RawColumnSet == Range(raw_columns)

\* The keys spam_derived_stat sums for each stat of the catalog.
CatalogKeys ==
    Stored([i \in DOMAIN SPAM_DASHBOARD_DERIVED_STATS |->
        LET k == DerivedKeys(SPAM_DASHBOARD_DERIVED_STATS[i].derived)
        IN  [ok |-> k.ok, keys |-> Stored(k.keys)]])

\* Lines 250-252: a 0 record for every raw column the snapshot lacks.
RawDayEvents(raw_events) ==
    Stored([c \in RawColumnSet |-> Get(raw_events, c, 0)])

\* Lines 256-267, one iteration, on [exc, ev]: exc is None unless
\* spam_derived_stat raised or a denominator was not yet in day_events.
\* keys are the keys spam_derived_stat sums for stat_def['derived'].
EvalStat(stat_def, keys, state) ==
    LET res == DerivedCount(state.ev, keys)
        with == SetItem(state.ev, stat_def.id, res.value)
        denom_id == stat_def.rate_denominiator
    IN  IF state.exc # None THEN state
        ELSE IF res.status # "returned" THEN [exc |-> res.status, ev |-> state.ev]
        ELSE IF ~Truthy(denom_id) THEN [exc |-> None, ev |-> with]
        ELSE IF denom_id \notin DOMAIN with THEN [exc |-> "KeyError", ev |-> with]
        ELSE [exc |-> None,
              ev |-> SetItem(with, stat_def.id \o SPAM_RATE_ID_SUFFIX,
                             Rate(res.value, with[denom_id]))]

RECURSIVE EvalRange(_, _, _, _, _)
\* The iterations for stats[lo..hi], in order.
EvalRange(stats, keys, lo, hi, state) ==
    IF lo > hi THEN state
    ELSE IF lo = hi THEN EvalStat(stats[lo], keys[lo], state)
    ELSE LET half == (lo + hi) \div 2
             left == EvalRange(stats, keys, lo, half, state)
         IN  IF left.exc # None THEN left
             ELSE EvalRange(stats, keys, half + 1, hi, left)

\* Lines 255-267: the loop over the stats.
EvalStats(stats, keys, day_events) ==
    EvalRange(stats, keys, 1, Len(stats), [exc |-> None, ev |-> day_events])

\* Lines 274-275: the window test of one span.
InSpan(d, span) == span.end >= d /\ d > span.start
IsCurrentInclusive(d, span) == d >= span.mid
IsCurrent(d, span) == d > span.mid

RECURSIVE Accumulate(_, _, _, _)
\* Lines 273-280: the day's non-rate columns added into trends.
Accumulate(sp, d, day_events, tr) ==
    IF sp = <<>> THEN tr
    ELSE IF InSpan(d, Head(sp))
    THEN LET trend_key == <<Head(sp).length, IsCurrent(d, Head(sp))>>
             old == Get(tr, trend_key, <<>>)
             new == Stored([c \in NonRateColumns |-> Get(old, c, 0) + day_events[c]])
         IN  Accumulate(Tail(sp), d, day_events, SetItem(tr, trend_key, new))
    ELSE Accumulate(Tail(sp), d, day_events, tr)

RECURSIVE AccumulatedDays(_, _, _)
\* The days for which lines 276-280 ran, per trend key, in order.
AccumulatedDays(sp, d, acc) ==
    IF sp = <<>> THEN acc
    ELSE IF InSpan(d, Head(sp))
    THEN LET trend_key == <<Head(sp).length, IsCurrent(d, Head(sp))>>
         IN  AccumulatedDays(Tail(sp), d,
                 SetItem(acc, trend_key, Append(Get(acc, trend_key, <<>>), d)))
    ELSE AccumulatedDays(Tail(sp), d, acc)

\* Lines 337-345, one iteration on a group dict, as [exc, cols].
WithRate(stat_def, state) ==
    LET denom_id == stat_def.rate_denominiator
    IN  IF state.exc # None \/ ~Truthy(denom_id) THEN state
        ELSE IF stat_def.id \notin DOMAIN state.cols
                \/ denom_id \notin DOMAIN state.cols
        THEN [exc |-> "KeyError", cols |-> state.cols]
        ELSE [exc |-> None,
              cols |-> SetItem(state.cols, stat_def.id \o SPAM_RATE_ID_SUFFIX,
                               Rate(state.cols[stat_def.id], state.cols[denom_id]))]

RECURSIVE WithRatesRange(_, _, _, _)
WithRatesRange(stats, lo, hi, state) ==
    IF lo > hi THEN state
    ELSE IF lo = hi THEN WithRate(stats[lo], state)
    ELSE LET half == (lo + hi) \div 2
             left == WithRatesRange(stats, lo, half, state)
         IN  IF left.exc # None THEN left
             ELSE WithRatesRange(stats, half + 1, hi, left)

\* Lines 336-345: the loop over the stats.
WithRates(stats, cols) ==
    WithRatesRange(stats, 1, Len(stats), [exc |-> None, cols |-> cols])

\* Lines 318-345: one period's entry. The columns of a group dict are kept
\* apart from its start and end.
GroupDict(start, end, trend_key, tr) ==
    LET rated == WithRates(SPAM_DASHBOARD_DERIVED_STATS, Get(tr, trend_key, <<>>))
    IN  [start |-> IsoFormat(start), end |-> IsoFormat(end),
         exc |-> rated.exc, cols |-> rated.cols]
PeriodData(span, tr) ==
    [id |-> span.period_id, days |-> span.length,
     current |-> GroupDict(span.mid + 1, span.end, <<span.length, TRUE>>, tr),
     previous |-> GroupDict(span.start + 1, span.mid, <<span.length, FALSE>>, tr)]

\* Lines 346-347: the last period of the summary's length.
SummaryPeriod(over_time, s) ==
    over_time[CHOOSE i \in DOMAIN over_time :
                 /\ over_time[i].days = s
                 /\ \A j \in DOMAIN over_time : over_time[j].days = s => j <= i]

\* Lines 359-366: one row of the raw table.
RawRow(d, metrics) ==
    <<IsoFormat(d)>> \o
    [i \in DOMAIN columns |->
        IF EndsWithRateSuffix(columns[i])
        THEN FormatPercent(Get(metrics, columns[i], Zero))
        ELSE Get(metrics, columns[i], 0)]

HIdle ==
    /\ h_pc = "idle"
    /\ h_args = <<>>
    /\ snapshots = 0
    /\ periods = <<>>
    /\ end_date = 0
    /\ summary = 0
    /\ spans = <<>>
    /\ oldest = 0
    /\ day = 0
    /\ events = <<>>
    /\ trends = <<>>
    /\ fetched = <<>>
    /\ accumulated = <<>>
    /\ data = <<>>

\* The arguments of one call, and the snapshots the cache job holds.
InitHist ==
    /\ h_pc = "call"
    /\ h_args \in HistArgs
    /\ snapshots \in Seeds
    /\ periods = <<>>
    /\ end_date = 0
    /\ summary = 0
    /\ spans = <<>>
    /\ oldest = 0
    /\ day = 0
    /\ events = <<>>
    /\ trends = <<>>
    /\ fetched = <<>>
    /\ accumulated = <<>>
    /\ data = <<>>

\* Lines 207-243: the defaults, the two asserts, the spans.
HistoricalCall ==
    /\ h_pc = "call"
    /\ LET ps == DefaultedPeriods(h_args.periods)
           e == DefaultedEndDate(h_args.end_date)
           sm == DefaultedSummary(h_args.summary, ps)
           sp == Spans(ps, e)
       IN  /\ periods' = ps
           /\ end_date' = e
           /\ summary' = sm
           /\ IF ps = <<>> \/ sm \notin Lengths(ps)
              THEN /\ h_pc' = "raised"
                   /\ data' = "AssertionError"
                   /\ UNCHANGED <<spans, oldest, day>>
              ELSE /\ h_pc' = "loop"
                   /\ spans' = sp
                   /\ oldest' = Oldest(sp, e)
                   /\ day' = e
                   /\ UNCHANGED data
    /\ UNCHANGED <<h_args, snapshots, events, trends, fetched, accumulated>>
    /\ UNCHANGED <<stvars, dsvars, othervars>>

\* Lines 244-283: one iteration of the while loop.
HistoricalDay ==
    /\ h_pc = "loop"
    /\ day > oldest
    /\ LET raw_events == SnapshotEvents(snapshots, day)
           evaluated == EvalStats(SPAM_DASHBOARD_DERIVED_STATS, CatalogKeys,
                                  RawDayEvents(raw_events))
       IN  /\ fetched' = Append(fetched, day)
           /\ IF evaluated.exc # None
              THEN /\ h_pc' = "raised"
                   /\ data' = evaluated.exc
                   /\ UNCHANGED <<events, trends, accumulated, day>>
              ELSE /\ events' = Append(events, <<day, evaluated.ev>>)
                   /\ trends' = Accumulate(spans, day, evaluated.ev, trends)
                   /\ accumulated' = AccumulatedDays(spans, day, accumulated)
                   /\ day' = day - 1
                   /\ UNCHANGED <<h_pc, data>>
    /\ UNCHANGED <<h_args, snapshots, periods, end_date, summary, spans, oldest>>
    /\ UNCHANGED <<stvars, dsvars, othervars>>

\* Lines 285-368: the report (without its generation time and the static
\* categories and change_types).
HistoricalReturn ==
    /\ h_pc = "loop"
    /\ ~(day > oldest)
    /\ LET over_time == [i \in DOMAIN spans |-> PeriodData(spans[i], trends)]
           failed == {i \in DOMAIN over_time :
                         over_time[i].current.exc # None
                         \/ over_time[i].previous.exc # None}
           summary_period == SummaryPeriod(over_time, summary)
       IN  IF failed # {}
           THEN /\ h_pc' = "raised"
                /\ data' = "KeyError"
           ELSE /\ h_pc' = "done"
                /\ data' =
                    [version |-> 1,
                     day |-> IsoFormat(end_date),
                     over_time |-> over_time,
                     summary |-> [days |-> summary_period.days,
                                  start |-> summary_period.current.start,
                                  end |-> summary_period.current.end,
                                  cols |-> summary_period.current.cols],
                     raw |-> [columns |-> <<"date">> \o columns,
                              data |-> [i \in DOMAIN events |->
                                           RawRow(events[i][1], events[i][2])]]]
    /\ UNCHANGED <<h_args, snapshots, periods, end_date, summary, spans, oldest,
                   day, events, trends, fetched, accumulated>>
    /\ UNCHANGED <<stvars, dsvars, othervars>>

(***************************************************************************)
(* constants.py:70-110 as it runs at import: the catalog is built by        *)
(* appending to a copy of the base list, one entry per loop iteration.     *)
(* c_changetype, c_group and c_stat are the positions of the loops.  The   *)
(* built catalog is then used as derived_stats for one day's evaluation    *)
(* (utils.py:249-267).                                                     *)
(***************************************************************************)
\* BASE_SPAM_DASHBOARD_DERIVED_STATS with the denominator of one stat
\* replaced.
WithDenominator(base, id, denom) ==
    [i \in DOMAIN base |->
        IF base[i].id = id THEN Stat(base[i].id, base[i].derived, denom)
        ELSE base[i]]
\* The base lists the module may hold: the one of constants.py:41-69, and
\* that list with a denominator id that no entry has.
BaseLists ==
    {BASE_SPAM_DASHBOARD_DERIVED_STATS,
     WithDenominator(BASE_SPAM_DASHBOARD_DERIVED_STATS, "spam_blocked", "spams")}

CIdle ==
    /\ c_pc = "idle"
    /\ c_base = <<>>
    /\ c_catalog = <<>>
    /\ c_changetype = 0
    /\ c_group = 0
    /\ c_stat = 0
    /\ c_first = <<>>
    /\ c_eval = <<>>

InitCatalog ==
    /\ c_pc = "copy"
    /\ c_base \in BaseLists
    /\ c_catalog = <<>>
    /\ c_changetype = 0
    /\ c_group = 0
    /\ c_stat = 0
    /\ c_first = <<>>
    /\ c_eval = <<>>

\* Line 70: the catalog starts as a copy of the base list.
CatalogCopy ==
    /\ c_pc = "copy"
    /\ c_catalog' = c_base
    /\ c_pc' = "changetype"
    /\ c_changetype' = 1
    /\ c_stat' = 1
    /\ UNCHANGED <<c_base, c_group, c_first, c_eval>>
    /\ UNCHANGED <<stvars, dsvars, hvars, jvars, rvars>>

\* Lines 73-85, one iteration of the inner loop.
CatalogChangeType ==
    /\ c_pc = "changetype"
    /\ c_catalog' = Append(c_catalog,
            ChangeTypeStat(c_base[c_stat], SPAM_STAT_CHANGE_TYPES[c_changetype]))
    /\ IF c_stat < Len(c_base)
       THEN /\ c_stat' = c_stat + 1
            /\ UNCHANGED <<c_pc, c_changetype, c_group>>
       ELSE IF c_changetype < Len(SPAM_STAT_CHANGE_TYPES)
       THEN /\ c_stat' = 1
            /\ c_changetype' = c_changetype + 1
            /\ UNCHANGED <<c_pc, c_group>>
       ELSE /\ c_pc' = "group"
            /\ c_group' = 1
            /\ c_stat' = 1
            /\ UNCHANGED c_changetype
    /\ UNCHANGED <<c_base, c_first, c_eval>>
    /\ UNCHANGED <<stvars, dsvars, hvars, jvars, rvars>>

\* Lines 88-99, one iteration of the inner loop.
CatalogGroup ==
    /\ c_pc = "group"
    /\ c_catalog' = Append(c_catalog,
            GroupStat(c_base[c_stat], GroupOptions[c_group]))
    /\ IF c_stat < Len(c_base)
       THEN /\ c_stat' = c_stat + 1
            /\ UNCHANGED <<c_pc, c_changetype, c_group>>
       ELSE IF c_group < Len(GroupOptions)
       THEN /\ c_stat' = 1
            /\ c_group' = c_group + 1
            /\ UNCHANGED <<c_pc, c_changetype>>
       ELSE /\ c_pc' = "groupchangetype"
            /\ c_group' = 1
            /\ c_changetype' = 1
            /\ UNCHANGED c_stat
    /\ UNCHANGED <<c_base, c_first, c_eval>>
    /\ UNCHANGED <<stvars, dsvars, hvars, jvars, rvars>>

\* Lines 102-110, one iteration of the inner loop.
CatalogGroupChangeType ==
    /\ c_pc = "groupchangetype"
    /\ c_catalog' = Append(c_catalog,
            GroupChangeTypeStat(GroupOptions[c_group],
                                SPAM_STAT_CHANGE_TYPES[c_changetype]))
    /\ IF c_changetype < Len(SPAM_STAT_CHANGE_TYPES)
       THEN /\ c_changetype' = c_changetype + 1
            /\ UNCHANGED <<c_pc, c_group>>
       ELSE IF c_group < Len(GroupOptions)
       THEN /\ c_changetype' = 1
            /\ c_group' = c_group + 1
            /\ UNCHANGED c_pc
       ELSE /\ c_pc' = "built"
            /\ UNCHANGED <<c_changetype, c_group>>
    /\ UNCHANGED <<c_base, c_stat, c_first, c_eval>>
    /\ UNCHANGED <<stvars, dsvars, hvars, jvars, rvars>>

\* The module is executed again (a reload): lines 70-110 run a second time
\* on the same base list; the first catalog is kept for comparison.
CatalogRebuild ==
    /\ c_pc = "built"
    /\ c_first = <<>>
    /\ c_first' = c_catalog
    /\ c_catalog' = <<>>
    /\ c_pc' = "copy"
    /\ c_changetype' = 0
    /\ c_group' = 0
    /\ c_stat' = 0
    /\ UNCHANGED <<c_base, c_eval>>
    /\ UNCHANGED <<stvars, dsvars, hvars, jvars, rvars>>

\* utils.py:249-267 with the built catalog as derived_stats, on one day's
\* snapshot: c_eval is [exc, ev] as EvalStats gives it, with the raw events.
CatalogEvaluate ==
    /\ c_pc = "built"
    /\ \E i \in DOMAIN SampleSnapshots :
        LET keys == [k \in DOMAIN c_catalog |-> DerivedKeys(c_catalog[k].derived)]
            evaluated == EvalStats(c_catalog, keys,
                                   RawDayEvents(SampleSnapshots[i]))
        IN  c_eval' = [exc |-> evaluated.exc, ev |-> evaluated.ev,
                       raw |-> SampleSnapshots[i]]
    /\ c_pc' = "evaluated"
    /\ UNCHANGED <<c_base, c_catalog, c_changetype, c_group, c_stat, c_first>>
    /\ UNCHANGED <<stvars, dsvars, hvars, jvars, rvars>>

(***************************************************************************)
(* jobs.py: SpamDayStatsJob, a KumaJob.  The class states lifetime,        *)
(* fetch_on_miss, version and fetch; get(day), the key and the cache are   *)
(* those of the base class, which follows the contract of the cache job:   *)
(* the key is (version, day), a miss fetches and stores with the expiry    *)
(* now + lifetime, and a store is one write.                               *)
(* A request is one get(day) in one process; requests interleave at the    *)
(* cache read, the end of the aggregation and the cache write.             *)
(***************************************************************************)
\* The most get(day) calls started, the most steps of the clock, and the
\* versions deployed.
MaxGets == 2
MaxTicks == 2
MaxVersion == 2

lifetime == 60 * 60 * 24 * 7
FetchOnMissOff == FALSE
fetch_on_miss == TRUE
version == 1
\* The clock moves by half a lifetime.
TickSeconds == lifetime \div 2

Requests == {1, 2}
JobDays == {GivenEndDate - 1, GivenEndDate}

\* What spam_day_stats finds for a day in the event source: it returns
\* needs_review and events, or raises (a day with blocked attempts and no
\* published revision).
DayOutcomes ==
    {[exc |-> None, needs_review |-> FALSE,
      events |-> [k \in {"staff_published_ham_edit_en"} |-> 1]],
     [exc |-> None, needs_review |-> TRUE,
      events |-> [k \in {"other_published_spam_new_other"} |-> 1]],
     [exc |-> "NameError", needs_review |-> FALSE, events |-> <<>>]}

\* The event sources: each day with each outcome in at least one of them.
JobSources ==
    {src \in [JobDays -> DayOutcomes] :
        \/ \A d \in JobDays : src[d].exc = None /\ ~src[d].needs_review
        \/ /\ src[GivenEndDate].exc = None /\ src[GivenEndDate].needs_review
           /\ src[GivenEndDate - 1].exc # None
        \/ /\ src[GivenEndDate].exc # None
           /\ src[GivenEndDate - 1].exc = None /\ src[GivenEndDate - 1].needs_review}

\* utils.py:153-161 for the day d at the time now: the snapshot, with
\* generated the time of the aggregation.
DaySnapshot(outcome, d, now) ==
    [version |-> 1, generated |-> now, day |-> IsoFormat(d),
     needs_review |-> outcome.needs_review, events |-> outcome.events]

\* fetch(day) = spam_day_stats(day): [exc, value].
fetch(source, d, now) ==
    [exc |-> source[d].exc,
     value |-> IF source[d].exc = None THEN DaySnapshot(source[d], d, now)
               ELSE <<>>]

\* The cache key of get(day) under a version.
JobKey(v, d) == <<v, d>>
\* The entry under the key, if it has not expired.
Live(cache, key, now) == key \in DOMAIN cache /\ now < cache[key].expires

IdleRequest == [pc |-> "idle", day |-> 0, version |-> 0, result |-> <<>>]

JIdle ==
    /\ j_source = <<>>
    /\ j_cache = <<>>
    /\ j_now = 0
    /\ j_version = 0
    /\ j_req = <<>>
    /\ j_gets = 0
    /\ j_invocations = 0

InitJob ==
    /\ j_source \in JobSources
    /\ j_cache = <<>>
    /\ j_now = 0
    /\ j_version = version
    /\ j_req = [r \in Requests |-> IdleRequest]
    /\ j_gets = 0
    /\ j_invocations = 0

\* get(day), up to the cache read: a live entry is returned; on a miss the
\* aggregation starts when fetch_on_miss is set, else nothing is returned.
JobGet ==
    /\ j_gets < MaxGets
    /\ \E r \in Requests, d \in JobDays :
        LET key == JobKey(j_version, d)
        IN  /\ j_req[r].pc \in {"idle", "done", "raised"}
            /\ j_req' = [j_req EXCEPT ![r] =
                  IF Live(j_cache, key, j_now)
                  THEN [pc |-> "done", day |-> d, version |-> j_version,
                        result |-> j_cache[key].value]
                  ELSE IF fetch_on_miss
                  THEN [pc |-> "fetching", day |-> d, version |-> j_version,
                        result |-> <<>>]
                  ELSE [pc |-> "done", day |-> d, version |-> j_version,
                        result |-> None]]
    /\ j_gets' = j_gets + 1
    /\ UNCHANGED <<j_source, j_cache, j_now, j_version, j_invocations>>
    /\ UNCHANGED <<stvars, dsvars, hvars, cvars, rvars>>

\* fetch(day) ends in the request's process: the snapshot, or the
\* exception, which get(day) lets through.
JobFetch ==
    /\ \E r \in Requests :
        LET fetched_now == fetch(j_source, j_req[r].day, j_now)
        IN  /\ j_req[r].pc = "fetching"
            /\ j_req' = [j_req EXCEPT ![r] =
                  IF fetched_now.exc = None
                  THEN [@ EXCEPT !.pc = "storing", !.result = fetched_now.value]
                  ELSE [@ EXCEPT !.pc = "raised", !.result = fetched_now.exc]]
    /\ j_invocations' = j_invocations + 1
    /\ UNCHANGED <<j_source, j_cache, j_now, j_version, j_gets>>
    /\ UNCHANGED <<stvars, dsvars, hvars, cvars, rvars>>

\* The result is written under the key with its expiry, in one write, and
\* returned.
JobStore ==
    /\ \E r \in Requests :
        /\ j_req[r].pc = "storing"
        /\ j_cache' = SetItem(j_cache, JobKey(j_req[r].version, j_req[r].day),
                              [expires |-> j_now + lifetime,
                               value |-> j_req[r].result])
        /\ j_req' = [j_req EXCEPT ![r].pc = "done"]
    /\ UNCHANGED <<j_source, j_now, j_version, j_gets, j_invocations>>
    /\ UNCHANGED <<stvars, dsvars, hvars, cvars, rvars>>

\* Time passes.
JobTick ==
    /\ j_now < MaxTicks * TickSeconds
    /\ j_now' = j_now + TickSeconds
    /\ UNCHANGED <<j_source, j_cache, j_version, j_req, j_gets, j_invocations>>
    /\ UNCHANGED <<stvars, dsvars, hvars, cvars, rvars>>

\* A release with the class's version raised; the requests started since
\* use the new version.
JobVersionBump ==
    /\ j_version < MaxVersion
    /\ j_version' = j_version + 1
    /\ UNCHANGED <<j_source, j_cache, j_now, j_req, j_gets, j_invocations>>
    /\ UNCHANGED <<stvars, dsvars, hvars, cvars, rvars>>

(***************************************************************************)
(* utils.py:62-70 and 108-112: the attempts spam_day_stats(day) selects.   *)
(* created is a datetime, counted in ticks of half a day from midnight of  *)
(* day 0; a date used as a bound of created__range stands for its          *)
(* midnight, and the range (SQL BETWEEN) includes both bounds.             *)
(***************************************************************************)
\* The most attempts in the store, and the last day aggregated.
MaxAttempts == 2
MaxDay == 2

TicksPerDay == 2
Midnight(d) == d * TicksPerDay
\* Line 62: next_day = day + datetime.timedelta(days=1)
next_day(d) == d + 1
\* created__range=(day, next_day)
InCreatedRange(created, d) ==
    Midnight(d) <= created /\ created <= Midnight(next_day(d))

RangeDays == 0..MaxDay
CreatedTimes == 0..Midnight(MaxDay + 1)
AttemptShapes ==
    [kind : {"published"}, review : {None}, created : CreatedTimes]
    \cup [kind : {"blocked"}, review : {HAM, NEEDS_REVIEW}, created : CreatedTimes]
AttemptStores ==
    UNION {[1..n -> AttemptShapes] : n \in 0..MaxAttempts}

\* The attempts of the store that spam_day_stats(d) counts: the published
\* revisions of the range and the blocked attempts of the range reviewed
\* ham or spam (lines 122-129); raised when the range holds blocked
\* attempts and no published revision (line 117).
DayCounted(store, d) ==
    LET selected == {a \in DOMAIN store : InCreatedRange(store[a].created, d)}
        published == {a \in selected : store[a].kind = "published"}
        blocked_edits == {a \in selected : store[a].kind = "blocked"}
    IN  IF published = {} /\ blocked_edits # {}
        THEN [exc |-> "NameError", counted |-> {}]
        ELSE [exc |-> None,
              counted |-> published \cup
                  {a \in blocked_edits :
                      BlockedContent(store[a].review) # "continue"}]

RIdle ==
    /\ r_attempts = <<>>
    /\ r_snapshots = <<>>

InitRange ==
    /\ r_attempts \in AttemptStores
    /\ r_snapshots = <<>>

\* spam_day_stats(d) for a day not aggregated yet, the days in any order.
RangeDayStats ==
    /\ \E d \in RangeDays \ DOMAIN r_snapshots :
          r_snapshots' = SetItem(r_snapshots, d, DayCounted(r_attempts, d))
    /\ UNCHANGED r_attempts
    /\ UNCHANGED <<stvars, dsvars, hvars, cvars, jvars>>

(***************************************************************************)
(* Properties of spam_derived_stat, checked under SpecStat.                *)
(***************************************************************************)
\* The full event keys that agree with the selector c on every dimension it
\* binds, as a set of tuples (group, published, content, fresh, lang).
AgreeingKeys(c) ==
    {t \in OptionsOf("group") \X OptionsOf("published") \X OptionsOf("content")
           \X OptionsOf("fresh") \X OptionsOf("lang") :
        /\ "group" \in DOMAIN c => t[1] = c["group"]
        /\ "published" \in DOMAIN c => t[2] = c["published"]
        /\ "content" \in DOMAIN c => t[3] = c["content"]
        /\ "fresh" \in DOMAIN c => t[4] = c["fresh"]
        /\ "lang" \in DOMAIN c => t[5] = c["lang"]}
MarginalSum(ev, c) ==
    LET S == AgreeingKeys(c)
    IN  SumOver([t \in S |-> Get(ev, Join(t), 0)], S)
ExampleSelector ==
    [n \in {"content", "published"} |-> IF n = "content" THEN "ham" ELSE "published"]

\* C4: for every mapping and every valid partial selector, spam_derived_stat
\* returns the sum of the mapping's counts (0 when absent) over the full
\* event keys that agree with the selector on its bound dimensions; the
\* empty selector returns the sum of all leaf counts, and the docstring's
\* example returns 39.
C4_MarginalSum ==
    (st_pc = "done" /\ InvalidEntries(st_categories) = {}) =>
        /\ st_result = Returned(MarginalSum(st_events, st_categories))
        /\ st_categories = <<>> =>
              st_result.value = SumOver(st_events, DOMAIN st_events)
        /\ (st_events = ExampleEvents /\ st_categories = ExampleSelector) =>
              st_result.value = 39
C4_Witness ==
    /\ st_pc = "done"
    /\ st_events = ExampleEvents
    /\ st_categories = ExampleSelector
    /\ st_result = Returned(39)

\* C5: spam_derived_stat fails with an invalid-argument error, and returns
\* no count, for every selector that names an undeclared dimension or binds
\* a declared dimension to a value outside its domain, the empty string and
\* None included.
C5_InvalidSelectorRejected ==
    (st_pc = "done" /\ InvalidEntries(st_categories) # {}) =>
        st_result = Raised("AssertionError")

(***************************************************************************)
(* Properties of spam_day_stats, checked under SpecDay.                    *)
(***************************************************************************)
EventsTotal(snapshot) == SumOver(snapshot.events, DOMAIN snapshot.events)

\* C1 (as amended): when spam_day_stats returns, the sum of all counts in
\* events is the number of published revisions plus the number of blocked
\* attempts whose review is ham or spam.
C1_EventsTotal ==
    ds_pc = "returned" =>
        EventsTotal(ds_result) = ds_npub + ds_tally[HAM] + ds_tally[SPAM]
C1_Witness ==
    /\ ds_pc = "returned"
    /\ ds_npub = 1
    /\ ds_tally[SPAM] = 1
    /\ EventsTotal(ds_result) = 2
\* C1 (as stated): the sum is the number of published revisions plus the
\* number of blocked attempts of every review state but needs-review.
C1_AllReviewedCounted ==
    ds_pc = "returned" =>
        EventsTotal(ds_result) = ds_npub + (ds_nblocked - ds_tally[NEEDS_REVIEW])

\* C2: every counted blocked attempt is added to the key whose group token
\* is the author group of the attempt's own author and whose language token
\* is derived from the attempt itself (its document's parent, or its locale
\* tag when no document is linked), whatever revisions were processed.
C2_BlockedOwnKey ==
    [][(ds_pc = "blocked" /\ counts' # counts) =>
          counts' = Increment(counts,
              Join(<<AuthorGroup(special_groups, blocked'.user_id), "blocked",
                     BlockedContent(blocked'.review),
                     BlockedFreshLang(blocked').fresh,
                     BlockedFreshLang(blocked').lang>>))]_vars

\* C3: spam_day_stats always completes: no blocked attempt, whatever its
\* data and whatever the day's revisions, aborts the aggregation.
C3_NeverAborts == ds_pc # "raised"

(***************************************************************************)
(* Properties of spam_dashboard_historical_stats, checked under SpecHist.  *)
(***************************************************************************)
SetMin(S) == CHOOSE x \in S : \A y \in S : x <= y
SetMax(S) == CHOOSE x \in S : \A y \in S : x >= y
\* The days accumulated under a trend key.
DaysOf(length, current) == Range(Get(accumulated, <<length, current>>, <<>>))
\* The per-day values stored for day d.
DayRow(d) == events[CHOOSE k \in DOMAIN events : events[k][1] = d][2]

\* C6: for every period of length L and end date E, the days accumulated as
\* current are exactly E-L+1..E and those accumulated as previous exactly
\* E-2L+1..E-L: contiguous, disjoint, L days each, none after E; and the
\* reported ISO start and end of each window are its first and last day.
C6_Windows ==
    h_pc = "done" =>
        \A i \in DOMAIN periods :
            LET L == periods[i][1]
                E == end_date
                cur == DaysOf(L, TRUE)
                prev == DaysOf(L, FALSE)
                entry == data.over_time[i]
            IN  /\ cur = (E - L + 1)..E
                /\ prev = (E - 2 * L + 1)..(E - L)
                /\ Cardinality(cur) = L /\ Cardinality(prev) = L
                /\ cur \cap prev = {}
                /\ SetMax(prev) + 1 = SetMin(cur)
                /\ \A d \in cur \cup prev : d <= E
                /\ entry.current.start = IsoFormat(SetMin(cur))
                /\ entry.current.end = IsoFormat(SetMax(cur))
                /\ entry.previous.start = IsoFormat(SetMin(prev))
                /\ entry.previous.end = IsoFormat(SetMax(prev))
C6_Witness ==
    /\ h_pc = "done"
    /\ end_date = GivenEndDate
    /\ \E i \in DOMAIN periods :
        /\ periods[i][1] = 2
        /\ DaysOf(2, FALSE) = {GivenEndDate - 3, GivenEndDate - 2}
        /\ data.over_time[i].previous.start = "2016-02-28"
        /\ data.over_time[i].previous.end = "2016-02-29"
        /\ data.over_time[i].current.start = "2016-03-01"
        /\ data.over_time[i].current.end = "2016-03-02"

\* C7: a call with an empty period list is rejected with an
\* invalid-argument error: no report is produced and no default period
\* list is substituted.
C7_EmptyPeriodsRejected ==
    (h_pc # "call" /\ h_args.periods = Some(<<>>)) =>
        /\ h_pc = "raised"
        /\ data = "AssertionError"
        /\ periods # SPAM_PERIODS

\* C8: when the designated summary length is not the length of any period of
\* the list, the call fails with an invalid-argument error before any daily
\* snapshot is fetched; when it is (or is left out: the last period), the
\* report's summary holds that length and that period's current aggregate.
C8_SummaryDesignated ==
    /\ (h_pc # "call" /\ h_args.summary.some
            /\ h_args.summary.v \notin Lengths(periods)) =>
          (h_pc = "raised" /\ data = "AssertionError" /\ fetched = <<>>)
    /\ h_pc = "done" =>
          LET want == IF h_args.summary.some THEN h_args.summary.v
                      ELSE periods[Len(periods)][1]
          IN  /\ data.summary.days = want
              /\ \E i \in DOMAIN periods :
                    /\ periods[i][1] = want
                    /\ data.summary.start = data.over_time[i].current.start
                    /\ data.summary.end = data.over_time[i].current.end
                    /\ data.summary.cols = data.over_time[i].current.cols

\* C9: for every period list (two periods of the same length included),
\* every period and every non-rate column, the value in the period's
\* current (previous) aggregate is the sum of the column's per-day values
\* over the days of the period's current (previous) window, each once.
WindowSum(c, days) == SumOver([d \in days |-> DayRow(d)[c]], days)
C9_PeriodSums ==
    h_pc = "done" =>
        \A i \in DOMAIN periods :
            LET L == periods[i][1]
                E == end_date
                entry == data.over_time[i]
            IN  \A c \in NonRateColumns :
                    /\ entry.current.cols[c] = WindowSum(c, (E - L + 1)..E)
                    /\ entry.previous.cols[c] =
                           WindowSum(c, (E - 2 * L + 1)..(E - L))

\* The rate of one stat in one dict of columns obeys the zero-guard rule.
RateOk(cols, stat_def) ==
    Truthy(stat_def.rate_denominiator) =>
        LET rate == cols[stat_def.id \o SPAM_RATE_ID_SUFFIX]
            denom == cols[stat_def.rate_denominiator]
            derived == cols[stat_def.id]
        IN  IF denom = 0 THEN rate = Zero
            ELSE rate[2] > 0 /\ rate[1] * denom = derived * rate[2]
AllRatesOk(cols) ==
    \A i \in DOMAIN SPAM_DASHBOARD_DERIVED_STATS :
        RateOk(cols, SPAM_DASHBOARD_DERIVED_STATS[i])

\* C10: for every catalog stat with a rate denominator, in each per-day row
\* and in each period's current and previous aggregates, the rate is 0 when
\* the denominator's value is 0 and otherwise rate * denominator = derived
\* value, the period's rate being that of the period's accumulated totals.
C10_Rates ==
    h_pc = "done" =>
        /\ \A k \in DOMAIN events : AllRatesOk(events[k][2])
        /\ \A i \in DOMAIN periods :
              /\ AllRatesOk(data.over_time[i].current.cols)
              /\ AllRatesOk(data.over_time[i].previous.cols)
C10_Witness ==
    /\ h_pc = "done"
    /\ \E k \in DOMAIN events :
          /\ events[k][2]["total"] = 0
          /\ events[k][2]["blocked_spam_rate"] = Zero
    /\ \E k \in DOMAIN events : events[k][2]["spam_blocked_rate"] = <<2, 3>>
    /\ \E i \in DOMAIN periods :
          /\ data.over_time[i].current.cols["spam_blocked"] = 3
          /\ data.over_time[i].current.cols["spam"] = 4
          /\ data.over_time[i].current.cols["spam_blocked_rate"] = <<3, 4>>

(***************************************************************************)
(* Properties of the catalog generation, checked under SpecCatalog.        *)
(***************************************************************************)
CatalogBuilt == c_pc \in {"built", "evaluated"}
UniqueIds(cat) ==
    \A i, j \in DOMAIN cat : cat[i].id = cat[j].id => i = j
Resolves(cat, denom) == \E j \in DOMAIN cat : cat[j].id = denom
DenominatorsResolve(cat) ==
    \A i \in DOMAIN cat :
        Truthy(cat[i].rate_denominiator) => Resolves(cat, cat[i].rate_denominiator)

\* C11: the catalog generated from the base list of constants.py has no two
\* entries with the same id, every stated rate-denominator id is the id of
\* an entry, and building it again from the same lists yields the same ids
\* with the same selectors.
C11_Catalog ==
    (CatalogBuilt /\ c_base = BASE_SPAM_DASHBOARD_DERIVED_STATS) =>
        /\ UniqueIds(c_catalog)
        /\ DenominatorsResolve(c_catalog)
        /\ c_first # <<>> =>
              /\ Len(c_catalog) = Len(c_first)
              /\ \A i \in DOMAIN c_first :
                    /\ c_catalog[i].id = c_first[i].id
                    /\ c_catalog[i].derived = c_first[i].derived
C11_Witness ==
    /\ c_pc = "built"
    /\ c_base = BASE_SPAM_DASHBOARD_DERIVED_STATS
    /\ c_first # <<>>
    /\ Len(c_catalog) = 68
    /\ c_catalog[14] =
          Stat("spam_blocked_changetype_new",
               [content |-> "spam", published |-> "blocked", fresh |-> "new",
                lang |-> "en"],
               "spam_changetype_new")
    /\ c_catalog[68].id = "other_changetype_edittrans"

\* C12: if a base stat states a rate-denominator id that resolves to no
\* catalog entry, generation fails: no built catalog holds an entry whose
\* denominator does not resolve, and none fails later in evaluation.
C12_UnresolvableRejected ==
    /\ CatalogBuilt => DenominatorsResolve(c_catalog)
    /\ c_pc = "evaluated" => c_eval.exc = None

(***************************************************************************)
(* Properties of the daily snapshot cache job, checked under SpecJob.      *)
(***************************************************************************)
SevenDays == 7 * 24 * 60 * 60
\* The request r starts a get in this step.
GetStarts(r) == j_gets' = j_gets + 1 /\ j_req'[r] # j_req[r]

\* C13: in every sequence of get(day) calls, a get on a day with no live
\* entry invokes the aggregator for that day and stores its result under
\* the key of (version, day) with a 7-day expiry; a later get for the same
\* day and version before the expiry returns the stored snapshot without
\* invoking the aggregator; an entry stored under another version is never
\* returned.
C13_CacheContract ==
    [][\A r \in Requests :
        /\ GetStarts(r) =>
              LET d == j_req'[r].day
                  key == <<j_version, d>>
                  stored == key \in DOMAIN j_cache
              IN  /\ j_req'[r].version = j_version
                  /\ (stored /\ j_now < j_cache[key].expires) =>
                        /\ j_req'[r].pc = "done"
                        /\ j_req'[r].result = j_cache[key].value
                        /\ j_req'[r].result.day = IsoFormat(d)
                        /\ j_invocations' = j_invocations
                  /\ (~stored \/ j_now > j_cache[key].expires) =>
                        j_req'[r].pc = "fetching"
        /\ (j_req[r].pc = "fetching" /\ j_req'[r].pc # "fetching") =>
              /\ j_invocations' = j_invocations + 1
              /\ j_req'[r].pc = "storing" =>
                    /\ j_req'[r].result.day = IsoFormat(j_req[r].day)
                    /\ j_req'[r].result.events = j_source[j_req[r].day].events
        /\ (j_req[r].pc = "storing" /\ j_req'[r].pc # "storing") =>
              /\ j_req'[r].pc = "done"
              /\ <<j_req[r].version, j_req[r].day>> \in DOMAIN j_cache'
              /\ j_cache'[<<j_req[r].version, j_req[r].day>>] =
                    [expires |-> j_now + SevenDays, value |-> j_req[r].result]
      ]_vars
\* A snapshot aggregated and stored at time 0 is returned to a later get.
C13_Witness ==
    /\ j_gets = 2
    /\ j_invocations = 1
    /\ j_now = TickSeconds
    /\ \E r \in Requests, key \in DOMAIN j_cache :
          /\ j_req[r].pc = "done"
          /\ j_req[r].result = j_cache[key].value
          /\ j_cache[key].value.generated = 0
          /\ j_cache[key].expires = SevenDays
          /\ key = <<j_req[r].version, j_req[r].day>>
    /\ \A r \in Requests : j_req[r].pc \in {"idle", "done"}

\* The position of the entry with the id in the catalog (0: none).
PositionOf(cat, id) ==
    IF Resolves(cat, id) THEN CHOOSE j \in DOMAIN cat : cat[j].id = id ELSE 0

\* C16: in the generated catalog every stat that declares a rate
\* denominator comes strictly after the entry that is its denominator, so
\* that the per-day evaluation, which walks the catalog in order, always
\* finds the denominator's value defined, and it is that day's value.
C16_DenominatorFirst ==
    (CatalogBuilt /\ c_base = BASE_SPAM_DASHBOARD_DERIVED_STATS) =>
        /\ \A i \in DOMAIN c_catalog :
              Truthy(c_catalog[i].rate_denominiator) =>
                  /\ PositionOf(c_catalog, c_catalog[i].rate_denominiator) > 0
                  /\ PositionOf(c_catalog, c_catalog[i].rate_denominiator) < i
        /\ c_pc = "evaluated" =>
              /\ c_eval.exc = None
              /\ \A i \in DOMAIN c_catalog :
                    Truthy(c_catalog[i].rate_denominiator) =>
                        LET stat_def == c_catalog[i]
                            denom_def == c_catalog[PositionOf(c_catalog,
                                             stat_def.rate_denominiator)]
                            day_events == RawDayEvents(c_eval.raw)
                            denom == spam_derived_stat(day_events,
                                                       denom_def.derived).value
                            derived == spam_derived_stat(day_events,
                                                         stat_def.derived).value
                        IN  /\ c_eval.ev[stat_def.rate_denominiator] = denom
                            /\ c_eval.ev[stat_def.id \o SPAM_RATE_ID_SUFFIX] =
                                   (IF denom = 0 THEN Zero ELSE Frac(derived, denom))
C16_Witness ==
    /\ c_pc = "evaluated"
    /\ c_base = BASE_SPAM_DASHBOARD_DERIVED_STATS
    /\ c_eval.exc = None
    /\ PositionOf(c_catalog, "spam_group_other") = 55
    /\ c_catalog[56].id = "spam_blocked_group_other"
    /\ c_catalog[56].rate_denominiator = "spam_group_other"
    /\ c_eval.ev["spam_group_other"] = 2
    /\ c_eval.ev["spam_blocked_group_other_rate"] = <<1, 1>>
    /\ c_eval.ev["spam_rate"] = <<3, 4>>

SnapshotFields == {"version", "generated", "day", "needs_review", "events"}
\* The snapshots returned so far and those in the cache, with their days.
ReturnedSnapshots ==
    {[day |-> j_req[r].day, value |-> j_req[r].result] :
        r \in {q \in Requests : j_req[q].pc = "done"}}
CachedSnapshots ==
    {[day |-> key[2], value |-> j_cache[key].value] : key \in DOMAIN j_cache}
\* Every snapshot returned or cached is complete, and those of one day
\* agree on day, needs_review and events.
SnapshotsAgree ==
    LET seen == ReturnedSnapshots \cup CachedSnapshots
    IN  /\ \A x \in seen :
              /\ DOMAIN x.value = SnapshotFields
              /\ x.value.day = IsoFormat(x.day)
        /\ \A x, y \in seen :
              x.day = y.day =>
                  /\ x.value.day = y.value.day
                  /\ x.value.needs_review = y.value.needs_review
                  /\ x.value.events = y.value.events

\* C14: under every interleaving of concurrent get(day) requests for the
\* same missing day, the event source unchanged, each request returns a
\* complete snapshot, the cache never holds a partial one, and all returned
\* and cached snapshots of the day agree on day, needs_review and events.
C14_ConcurrentGets ==
    /\ \A r \in Requests : j_req[r].pc # "raised"
    /\ SnapshotsAgree

(***************************************************************************)
(* The historical loop, checked under SpecHist.                            *)
(***************************************************************************)
MaxLength(ps) == SetMax(Lengths(ps))
\* The days fetched so far are E, E-1, ... in this order, at most 2M of
\* them; a report has fetched 2M and has one raw row for each, in order.
FetchedInOrder ==
    /\ h_pc \in {"loop", "done"} =>
          LET E == end_date
              M == MaxLength(periods)
          IN  /\ \A k \in DOMAIN fetched : fetched[k] = E - k + 1
              /\ Len(fetched) <= 2 * M
              /\ \A k \in DOMAIN fetched : fetched[k] > E - 2 * M
              /\ h_pc = "done" =>
                    /\ Len(fetched) = 2 * M
                    /\ Len(data.raw.data) = 2 * M
                    /\ \A k \in DOMAIN data.raw.data :
                          data.raw.data[k][1] = IsoFormat(E - k + 1)
    /\ h_pc = "raised" => fetched = <<>>
\* A step from the loop fetches the next day down, or ends the loop with
\* the report once 2M days are fetched: 2M - Len(fetched) decreases by one
\* with every iteration and the loop leaves at 0.
LoopStep ==
    h_pc = "loop" =>
        \/ /\ h_pc' = "loop"
           /\ fetched' = Append(fetched, end_date - Len(fetched))
           /\ Len(fetched') <= 2 * MaxLength(periods)
        \/ /\ h_pc' = "done"
           /\ fetched' = fetched
           /\ Len(fetched) = 2 * MaxLength(periods)

DaysCounting(a) ==
    {d \in DOMAIN r_snapshots : a \in r_snapshots[d].counted}

\* C17: every attempt is counted in the snapshot of exactly one calendar
\* day, for every creation time, midnight included: the ranges of day D
\* and day D+1 never both include the same attempt, and the snapshots of a
\* window never count an attempt twice.
C17_CountedOnce ==
    /\ \A a \in DOMAIN r_attempts, d \in DOMAIN r_snapshots :
          next_day(d) \in DOMAIN r_snapshots =>
              ~(/\ InCreatedRange(r_attempts[a].created, d)
                /\ InCreatedRange(r_attempts[a].created, next_day(d)))
    /\ \A a \in DOMAIN r_attempts : Cardinality(DaysCounting(a)) <= 1

\* The components added after the first three, at rest.
OtherIdle == CIdle /\ JIdle /\ RIdle

StatInit == InitStat /\ DsIdle /\ HIdle /\ OtherIdle
NextStat == DerivedStatCall
SpecStat == StatInit /\ [][NextStat]_vars

DayInit == InitDay /\ StIdle /\ HIdle /\ OtherIdle
NextDay == PublishedStep \/ EndPublished \/ BlockedStep \/ DayReturn
SpecDay == DayInit /\ [][NextDay]_vars

HistInit == InitHist /\ StIdle /\ DsIdle /\ OtherIdle
NextHist == HistoricalCall \/ HistoricalDay \/ HistoricalReturn
SpecHist == HistInit /\ [][NextHist]_vars

CatalogInit == InitCatalog /\ StIdle /\ DsIdle /\ HIdle /\ JIdle /\ RIdle
NextCatalog ==
    \/ CatalogCopy \/ CatalogChangeType \/ CatalogGroup
    \/ CatalogGroupChangeType \/ CatalogRebuild \/ CatalogEvaluate
SpecCatalog == CatalogInit /\ [][NextCatalog]_vars

JobInit == InitJob /\ StIdle /\ DsIdle /\ HIdle /\ CIdle /\ RIdle
NextJob == JobGet \/ JobFetch \/ JobStore \/ JobTick \/ JobVersionBump
SpecJob == JobInit /\ [][NextJob]_vars

RangeInit == InitRange /\ StIdle /\ DsIdle /\ HIdle /\ CIdle /\ JIdle
NextRange == RangeDayStats
SpecRange == RangeInit /\ [][NextRange]_vars

====
